---- MODULE Spec2Model ----
(***************************************************************************)
(* UrbanGate: the visitor gate-pass workflow (resident dashboard, security *)
(* terminal, Telegram callback of the send-push edge function) and the     *)
(* amenity booking flow (resident dashboard, building-admin dashboard),    *)
(* both acting on the shared Postgres tables visitors, bookings, amenities.*)
(***************************************************************************)
EXTENDS Integers, Sequences, FiniteSets, TLC

\* ------------------------------------------------------------------ bounds
MaxVisitors == 1
MaxPasses == 2
MaxBookings == 2
MaxAmenities == 2
MaxFeed == 2
MaxDeciding == 1

\* --------------------------------------------------------------- constants
NULL == "null"
TS == "ts"
\* a null invite_code, an empty code field
NoCode == <<>>
NoTime == <<>>
NoForm == [amenityId |-> 0, date |-> "", startTime |-> NoTime, endTime |-> NoTime]
\* "08:00", "09:00", "10:00", "11:00" as the digits of the string
T0800 == <<0, 8, 0, 0>>
T0900 == <<0, 9, 0, 0>>
T1000 == <<1, 0, 0, 0>>
T1100 == <<1, 1, 0, 0>>
\* the intervals a resident proposes: before opening, inside the hours, past
\* closing, end before start, empty
IntervalInputs == {<<T0800, T0900>>, <<T0900, T1000>>, <<T0900, T1100>>,
                   <<T1000, T0900>>, <<T0900, T0900>>}
DateInputs == {"d1"}
AdminHours == {<<T0900, T1000>>}
BookingResidents == {"r1", "r2"}
\* Math.random() returns k / RandDen: its least value, and the greatest below 1
RandDen == 1000000
RandNums == {0, 999999}

Residents == {"r1", "r2", "r3"}
Gates == {"g1", "g2"}
Building == [r1 |-> "b1", r2 |-> "b1", r3 |-> "b2", g1 |-> "b1", g2 |-> "b1"]
Flat == [r1 |-> "101", r2 |-> "102", r3 |-> "201"]
Verified == [r1 |-> TRUE, r2 |-> FALSE, r3 |-> TRUE]
FlatInputs == {"101", "102"}
\* the scenario: which resident dashboards are open, which terminal serves the
\* walk-in desk and the visitor list (the other one only scans codes)
OpenDashboards == {"r1"}
\* the residents who issue passes: one of the terminals' building, one of another
PassIssuers == {"r1", "r3"}
DeskGates == {"g1"}

VARIABLES visitors, hist, pendingRequests, resVisitors,
          secVisitors, verifying, verifyData, feedback,
          requestForm, residentProfile,
          amenities, bookings, resAmenities, myBookings, submitting, bookingForm,
          bookingResult, pushQueue, feed, deciding,
          profiles, existingProfile, profile

visitorVars == <<visitors, hist, pendingRequests, resVisitors, secVisitors,
                 verifying, verifyData, feedback, requestForm, residentProfile>>
bookingVars == <<amenities, bookings, resAmenities, myBookings, submitting, bookingForm,
                 bookingResult>>
vars == <<visitors, hist, pendingRequests, resVisitors, secVisitors,
          verifying, verifyData, feedback, requestForm, residentProfile,
          amenities, bookings, resAmenities, myBookings, submitting, bookingForm,
          bookingResult, pushQueue, feed, deciding,
          profiles, existingProfile, profile>>

appVars == <<profiles, existingProfile, profile>>

\* ------------------------------------------------------------ pure helpers
Ids == 1..Len(visitors)

\* Number.prototype.toString(): the decimal digits of a positive integer
RECURSIVE toString(_)
toString(n) == IF n < 10 THEN <<n>> ELSE Append(toString(n \div 10), n % 10)

\* a product one digit too wide
invite_codeWide(k) ==
  toString(100000 + ((k * (9000000 \div 100000)) \div (RandDen \div 100000)))

\* Math.floor(100000 + Math.random() * 900000).toString(), Math.random() = k/RandDen
\* (the fraction 900000/RandDen reduced by 100000, to stay within 32 bits)
invite_code(k) ==
  toString(100000 + ((k * (900000 \div 100000)) \div (RandDen \div 100000)))

\* rows of a select ... .order('created_at', { ascending: false })
RECURSIVE DescendingOf(_, _, _)
DescendingOf(vs, rows, n) ==
  IF n = 0 THEN <<>>
  ELSE IF n \in rows
       THEN <<[id |-> n, status |-> vs[n].status]>> \o DescendingOf(vs, rows, n - 1)
       ELSE DescendingOf(vs, rows, n - 1)

ListIds(list) == {list[i].id : i \in 1..Len(list)}

\* supabase.from('visitors').update({status, check_in_at}).eq('id', id)
UpdateDecision(vs, id, status) ==
  [i \in 1..Len(vs) |->
     IF i = id
     THEN [vs[i] EXCEPT !.status = status,
                        !.check_in_at = IF status = "ENTERED" THEN TS ELSE NULL]
     ELSE vs[i]]

\* supabase.from('visitors').update({status:'ENTERED', check_in_at}).eq('id', id)
UpdateEntered(vs, id) ==
  [i \in 1..Len(vs) |->
     IF i = id THEN [vs[i] EXCEPT !.status = "ENTERED", !.check_in_at = TS] ELSE vs[i]]

\* supabase.from('visitors').update({status:'EXITED', check_out_at}).eq('id', id)
UpdateExited(vs, id) ==
  [i \in 1..Len(vs) |->
     IF i = id THEN [vs[i] EXCEPT !.status = "EXITED", !.check_out_at = TS] ELSE vs[i]]

\* history of each visitor: has its status ever been ENTERED or EXITED, has a
\* decide call been applied to it, has a validateCode call been applied to it
TrackStatus(hs, vs) ==
  [i \in 1..Len(vs) |->
     IF i <= Len(hs)
     THEN [hs[i] EXCEPT !.everIn = hs[i].everIn \/ vs[i].status \in {"ENTERED", "EXITED"}]
     ELSE [everIn |-> vs[i].status \in {"ENTERED", "EXITED"}, decided |-> FALSE, admitted |-> FALSE]]

BumpDecided(hs, id) ==
  [i \in 1..Len(hs) |->
     IF i = id THEN [hs[i] EXCEPT !.decided = TRUE] ELSE hs[i]]

BumpAdmitted(hs, id) ==
  [i \in 1..Len(hs) |->
     IF i = id THEN [hs[i] EXCEPT !.admitted = TRUE] ELSE hs[i]]

\* ------------------------------------------------------ bookings: helpers
\* the < of two JavaScript strings, given as sequences of digits
RECURSIVE StrLess(_, _)
StrLess(a, b) ==
  IF b = <<>> THEN FALSE
  ELSE IF a = <<>> THEN TRUE
  ELSE IF Head(a) # Head(b) THEN Head(a) < Head(b)
  ELSE StrLess(Tail(a), Tail(b))

StrGeq(a, b) == ~StrLess(a, b)

\* row-level security of bookings: a resident reads the rows it owns
\* (bookings_self); bookings_admin gives the other rows to admins only
VisibleBookings(bk, r) == {b \in bk : b.profile_id = r}

\* select id from bookings where amenity_id, date, start_time < end, end_time > start
Clashes(bk, r, form) ==
  {b \in VisibleBookings(bk, r) :
     /\ b.amenity_id = form.amenityId
     /\ b.date = form.date
     /\ StrLess(b.start_time, form.endTime)
     /\ StrLess(form.startTime, b.end_time)}

\* select * from amenities where building_id (amenities_read lets the building read)
FetchedAmenities(am, b) ==
  LET Mine(a) == a.building_id = b
  IN SelectSeq([i \in 1..Len(am) |-> [id |-> i, building_id |-> am[i].building_id,
                                       open_time |-> am[i].open_time,
                                       close_time |-> am[i].close_time]], Mine)

\* select * from bookings where building_id, profile_id
FetchedBookings(bk, r) ==
  {b \in VisibleBookings(bk, r) : b.building_id = Building[r]}

\* amenities.find(a => a.id === bookingForm.amenityId): its position, 0 when undefined
FindAmenity(list, id) ==
  IF \E i \in 1..Len(list) : list[i].id = id
  THEN CHOOSE i \in 1..Len(list) : list[i].id = id /\ \A j \in 1..(i - 1) : list[j].id # id
  ELSE 0

\* the range test with > for >=
BadRangeStrict(form) == StrLess(form.endTime, form.startTime)

\* bookingForm.startTime >= bookingForm.endTime
BadRange(form) == StrGeq(form.startTime, form.endTime)

\* the operating hours test on the amenity of the client's list
OutsideHours(list, form) ==
  LET selectedAmenity == FindAmenity(list, form.amenityId)
  IN /\ selectedAmenity # 0
     /\ list[selectedAmenity].open_time # NoTime
     /\ list[selectedAmenity].close_time # NoTime
     /\ \/ StrLess(form.startTime, list[selectedAmenity].open_time)
        \/ StrLess(list[selectedAmenity].close_time, form.endTime)

\* ---------------------------------------------------- resident dashboard
\* the visitors query of fetchData and the two setters that follow it
ResidentRows(vs, r) ==
  {i \in 1..Len(vs) : vs[i].building_id = Building[r] /\ vs[i].flat_number = Flat[r]}

FetchedVisitors(vs, r) == DescendingOf(vs, ResidentRows(vs, r), Len(vs))

IsWaiting(v) == v.status = "WAITING_APPROVAL"

\* a sequence without its element at position j
Without(s, j) == SubSeq(s, 1, j - 1) \o SubSeq(s, j + 1, Len(s))

\* ------------------------------------------------- realtime change feed
\* does a change of this row reach channel c: the filter of the subscription
\* (flat_number for a resident, building_id for a terminal) and the row-level
\* security of visitors
Passes(c, row) ==
  IF c \in Residents
  THEN row.flat_number = Flat[c] /\ row.building_id = Building[c]
  ELSE row.building_id = Building[c]

\* the postgres_changes payload of a write to row id of vs, queued for every
\* subscribed channel it passes to (at: in flight, or lost for good)
Publish(fd, eventType, vs, id) ==
  [c \in DOMAIN fd |->
     IF Passes(c, vs[id])
     THEN Append(fd[c], [eventType |-> eventType,
                         new |-> [id |-> id, status |-> vs[id].status],
                         at |-> "flight"])
     ELSE fd[c]]

\* the setters of fetchData, applied to the answers of its queries
fetchInto(r, vs, am, bk) ==
  /\ resAmenities' = [resAmenities EXCEPT ![r] = FetchedAmenities(am, Building[r])]
  /\ myBookings' = [myBookings EXCEPT ![r] = FetchedBookings(bk, r)]
  /\ resVisitors' = [resVisitors EXCEPT ![r] = FetchedVisitors(vs, r)]
  /\ pendingRequests' = [pendingRequests EXCEPT
                           ![r] = SelectSeq(FetchedVisitors(vs, r), IsWaiting)]

fetchData(r) ==
  /\ fetchInto(r, visitors, amenities, bookings)
  /\ UNCHANGED <<visitors, hist, secVisitors, verifying, verifyData, feedback,
                 requestForm, residentProfile>>
  /\ UNCHANGED <<amenities, bookings, submitting, bookingForm, bookingResult>>
  /\ UNCHANGED pushQueue
  /\ UNCHANGED <<feed, deciding>>
  /\ UNCHANGED appVars

handleInviteVisitor(r, k, dbOk) ==
  /\ IF dbOk
     THEN LET row == [building_id |-> Building[r], flat_number |-> Flat[r],
                      type |-> "PRE_APPROVED", status |-> "PENDING",
                      invite_code |-> invite_code(k),
                      check_in_at |-> NULL, check_out_at |-> NULL]
              vs == Append(visitors, row)
          IN /\ visitors' = vs
             /\ hist' = TrackStatus(hist, vs)
             /\ fetchInto(r, vs, amenities, bookings)
     ELSE UNCHANGED <<visitors, hist, resVisitors, pendingRequests, resAmenities, myBookings>>
  /\ UNCHANGED <<secVisitors, verifying, verifyData, feedback, requestForm, residentProfile>>
  /\ UNCHANGED <<amenities, bookings, submitting, bookingForm, bookingResult>>
  /\ UNCHANGED pushQueue
  /\ feed' = IF Len(visitors') > Len(visitors) THEN Publish(feed, "INSERT", visitors', Len(visitors')) ELSE feed
  /\ UNCHANGED deciding
  /\ UNCHANGED appVars

handleDecision(r, visitorId, status, dbOk) ==
  /\ visitorId \in ListIds(pendingRequests[r])
  /\ LET NotIt(v) == v.id # visitorId
         optPending == SelectSeq(pendingRequests[r], NotIt)
         optVisitors == [i \in 1..Len(resVisitors[r]) |->
                           IF resVisitors[r][i].id = visitorId
                           THEN [resVisitors[r][i] EXCEPT !.status = status]
                           ELSE resVisitors[r][i]]
     IN IF dbOk
        THEN LET vs == UpdateDecision(visitors, visitorId, status)
             IN /\ visitors' = vs
                /\ hist' = BumpDecided(TrackStatus(hist, vs), visitorId)
                /\ pendingRequests' = [pendingRequests EXCEPT ![r] = optPending]
                /\ resVisitors' = [resVisitors EXCEPT ![r] = optVisitors]
                /\ UNCHANGED <<resAmenities, myBookings>>
        ELSE /\ UNCHANGED <<visitors, hist>>
             /\ fetchInto(r, visitors, amenities, bookings)
  /\ UNCHANGED <<secVisitors, verifying, verifyData, feedback, requestForm, residentProfile>>
  /\ UNCHANGED <<amenities, bookings, submitting, bookingForm, bookingResult>>
  /\ UNCHANGED pushQueue
  /\ feed' = IF dbOk THEN Publish(feed, "UPDATE", visitors', visitorId) ELSE feed
  /\ UNCHANGED deciding
  /\ UNCHANGED appVars

\* the UPDATE branch without its setPendingRequests
PendingAfterUpdateKept(list, updated) == list

\* setPendingRequests of the UPDATE branch: a visitor that no longer waits is
\* filtered out
PendingAfterUpdate(list, updated) ==
  IF ~IsWaiting(updated)
  THEN SelectSeq(list, LAMBDA v : v.id # updated.id)
  ELSE list

\* the visitors handler of the resident's channel, for the event at position j
\* of its feed
onVisitorsChange(r, j) ==
  /\ r \in DOMAIN feed
  /\ j \in 1..Len(feed[r])
  /\ feed[r][j].at = "flight"
  /\ LET payload == feed[r][j]
     IN IF payload.eventType = "INSERT"
        THEN /\ resVisitors' = [resVisitors EXCEPT ![r] = <<payload.new>> \o @]
             /\ pendingRequests' = [pendingRequests EXCEPT
                   ![r] = IF IsWaiting(payload.new) THEN <<payload.new>> \o @ ELSE @]
        ELSE /\ resVisitors' = [resVisitors EXCEPT
                   ![r] = [i \in 1..Len(@) |->
                             IF @[i].id = payload.new.id THEN payload.new ELSE @[i]]]
             /\ pendingRequests' = [pendingRequests EXCEPT
                   ![r] = PendingAfterUpdate(@, payload.new)]
  /\ feed' = [feed EXCEPT ![r] = Without(@, j)]
  /\ UNCHANGED <<visitors, hist, secVisitors, verifying, verifyData, feedback,
                 requestForm, residentProfile, pushQueue, deciding>>
  /\ UNCHANGED bookingVars
  /\ UNCHANGED appVars

\* handleDecision up to the update request: the optimistic change of the lists
handleDecisionOptimistic(r, visitorId, status) ==
  /\ visitorId \in ListIds(pendingRequests[r])
  /\ LET NotIt(v) == v.id # visitorId
     IN /\ pendingRequests' = [pendingRequests EXCEPT ![r] = SelectSeq(@, NotIt)]
        /\ resVisitors' = [resVisitors EXCEPT
              ![r] = [i \in 1..Len(@) |->
                        IF @[i].id = visitorId THEN [@[i] EXCEPT !.status = status]
                        ELSE @[i]]]
  /\ deciding' = [deciding EXCEPT ![r] = @ \cup {[id |-> visitorId, status |-> status]}]
  /\ UNCHANGED <<visitors, hist, secVisitors, verifying, verifyData, feedback,
                 requestForm, residentProfile, pushQueue, feed>>
  /\ UNCHANGED bookingVars
  /\ UNCHANGED appVars

\* handleDecision from the answer of the update: on an error the lists are
\* fetched again
handleDecisionUpdate(r, d, dbOk) ==
  /\ d \in deciding[r]
  /\ deciding' = [deciding EXCEPT ![r] = @ \ {d}]
  /\ IF dbOk
     THEN LET vs == UpdateDecision(visitors, d.id, d.status)
          IN /\ visitors' = vs
             /\ hist' = BumpDecided(TrackStatus(hist, vs), d.id)
             /\ feed' = Publish(feed, "UPDATE", vs, d.id)
             /\ UNCHANGED <<pendingRequests, resVisitors, resAmenities, myBookings>>
     ELSE /\ fetchInto(r, visitors, amenities, bookings)
          /\ UNCHANGED <<visitors, hist, feed>>
  /\ UNCHANGED <<secVisitors, verifying, verifyData, feedback, requestForm,
                 residentProfile, pushQueue>>
  /\ UNCHANGED <<amenities, bookings, submitting, bookingForm, bookingResult>>
  /\ UNCHANGED appVars

\* what a call of handleBooking showed (alert), and whether the form it was
\* called with had startTime >= endTime
Answer(alert, form) ==
  [alert |-> alert, emptyRange |-> ~StrLess(form.startTime, form.endTime)]

\* handleBooking up to the answer of the clash query
handleBooking(r, form, dbOk) ==
  /\ ~submitting[r]
  /\ form.amenityId \in ListIds(resAmenities[r]) \cup {0}
  /\ IF form.amenityId = 0
     THEN /\ bookingResult' = Answer("NoAmenity", form)
          /\ UNCHANGED <<submitting, bookingForm>>
     ELSE IF BadRange(form)
     THEN /\ bookingResult' = Answer("InvalidRange", form)
          /\ UNCHANGED <<submitting, bookingForm>>
     ELSE IF OutsideHours(resAmenities[r], form)
     THEN /\ bookingResult' = Answer("OutsideOperatingHours", form)
          /\ UNCHANGED <<submitting, bookingForm>>
     ELSE IF ~dbOk
     THEN /\ bookingResult' = Answer("Failed", form)
          /\ UNCHANGED <<submitting, bookingForm>>
     ELSE IF Clashes(bookings, r, form) # {}
     THEN /\ bookingResult' = Answer("SlotOccupied", form)
          /\ UNCHANGED <<submitting, bookingForm>>
     ELSE /\ submitting' = [submitting EXCEPT ![r] = TRUE]
          /\ bookingForm' = [bookingForm EXCEPT ![r] = form]
          /\ bookingResult' = Answer("none", form)
  /\ UNCHANGED <<amenities, bookings, resAmenities, myBookings>>
  /\ UNCHANGED visitorVars
  /\ UNCHANGED pushQueue
  /\ UNCHANGED <<feed, deciding>>
  /\ UNCHANGED appVars

\* handleBooking from the insert to the end of the handler
handleBookingInsert(r, dbOk) ==
  /\ submitting[r]
  /\ IF dbOk
     THEN LET row == [building_id |-> Building[r], amenity_id |-> bookingForm[r].amenityId,
                      profile_id |-> r, date |-> bookingForm[r].date,
                      start_time |-> bookingForm[r].startTime,
                      end_time |-> bookingForm[r].endTime]
              bk == bookings \cup {row}
          IN /\ bookings' = bk
             /\ fetchInto(r, visitors, amenities, bk)
             /\ bookingResult' = Answer("Confirmed", bookingForm[r])
     ELSE /\ bookingResult' = Answer("Failed", bookingForm[r])
          /\ UNCHANGED <<bookings, resAmenities, myBookings, resVisitors, pendingRequests>>
  /\ submitting' = [submitting EXCEPT ![r] = FALSE]
  /\ bookingForm' = [bookingForm EXCEPT ![r] = NoForm]
  /\ UNCHANGED amenities
  /\ UNCHANGED <<visitors, hist, secVisitors, verifying, verifyData, feedback,
                 requestForm, residentProfile>>
  /\ UNCHANGED pushQueue
  /\ UNCHANGED <<feed, deciding>>
  /\ UNCHANGED appVars

\* the sessions that send requests for bookings, and the role of each profile
Requesters == {"r1", "r2", "a1"}
Role == [r1 |-> "RESIDENT", r2 |-> "RESIDENT", a1 |-> "BUILDING_ADMIN"]

\* delete from bookings where id = b.id, under row-level security: bookings_self
\* is FOR ALL with profile_id = auth.uid(); bookings_admin is FOR SELECT only
DeleteBooking(bk, q, b) == {x \in bk : ~(x = b /\ x.profile_id = q)}

\* supabase.from('bookings').delete().eq('id', id) sent with the session of q;
\* the answer carries no error when no row was deleted
deleteRequest(q, b, dbOk) ==
  /\ b \in bookings
  /\ IF dbOk
     THEN /\ bookings' = DeleteBooking(bookings, q, b)
          /\ bookingResult' = [alert |-> "none", emptyRange |-> FALSE]
     ELSE /\ UNCHANGED bookings
          /\ bookingResult' = [alert |-> "Failed", emptyRange |-> FALSE]
  /\ UNCHANGED <<amenities, resAmenities, myBookings, submitting, bookingForm>>
  /\ UNCHANGED visitorVars
  /\ UNCHANGED pushQueue
  /\ UNCHANGED <<feed, deciding>>
  /\ UNCHANGED appVars

\* the cancel button of a row of the resident's own list
handleDeleteBooking(r, b, dbOk) ==
  /\ b \in myBookings[r]
  /\ IF dbOk
     THEN LET bk == DeleteBooking(bookings, r, b)
          IN /\ bookings' = bk
             /\ fetchInto(r, visitors, amenities, bk)
             /\ bookingResult' = [alert |-> "none", emptyRange |-> FALSE]
     ELSE /\ bookingResult' = [alert |-> "Failed", emptyRange |-> FALSE]
          /\ UNCHANGED <<bookings, resAmenities, myBookings, resVisitors, pendingRequests>>
  /\ UNCHANGED <<amenities, submitting, bookingForm>>
  /\ UNCHANGED <<visitors, hist, secVisitors, verifying, verifyData, feedback,
                 requestForm, residentProfile>>
  /\ UNCHANGED pushQueue
  /\ UNCHANGED <<feed, deciding>>
  /\ UNCHANGED appVars

\* --------------------------------------------- building admin dashboard
\* insert({...newAmenity, building_id}): the payload's keys openTime and closeTime
\* are not columns of amenities; the API either refuses the row or drops them
handleAddAmenity(b, openTime, closeTime, dropsUnknownKeys) ==
  /\ IF dropsUnknownKeys
     THEN amenities' = Append(amenities,
            [building_id |-> b, open_time |-> NoTime, close_time |-> NoTime,
             openTime |-> openTime, closeTime |-> closeTime])
     ELSE UNCHANGED amenities
  /\ UNCHANGED <<bookings, resAmenities, myBookings, submitting, bookingForm, bookingResult>>
  /\ UNCHANGED visitorVars
  /\ UNCHANGED pushQueue
  /\ UNCHANGED <<feed, deciding>>
  /\ UNCHANGED appVars

\* ------------------------------------------- send-push: Telegram callback
CallbackStatus(action) == IF action = "approve" THEN "ENTERED" ELSE "REJECTED"

serveCallback(action, visitorId, dbOk) ==
  /\ IF dbOk /\ visitorId \in Ids
     THEN LET vs == UpdateDecision(visitors, visitorId, CallbackStatus(action))
          IN /\ visitors' = vs
             /\ hist' = BumpDecided(TrackStatus(hist, vs), visitorId)
     ELSE UNCHANGED <<visitors, hist>>
  /\ UNCHANGED <<pendingRequests, resVisitors, secVisitors, verifying, verifyData,
                 feedback, requestForm, residentProfile>>
  /\ UNCHANGED bookingVars
  /\ UNCHANGED pushQueue
  /\ feed' = IF dbOk /\ visitorId \in Ids THEN Publish(feed, "UPDATE", visitors', visitorId) ELSE feed
  /\ UNCHANGED deciding
  /\ UNCHANGED appVars

\* ------------------------------------------------- security dashboard
GateRows(vs, g) == {i \in 1..Len(vs) : vs[i].building_id = Building[g]}

refreshData(g) ==
  /\ secVisitors' = [secVisitors EXCEPT ![g] = DescendingOf(visitors, GateRows(visitors, g), Len(visitors))]
  /\ UNCHANGED <<visitors, hist, pendingRequests, resVisitors, verifying, verifyData,
                 feedback, requestForm, residentProfile>>
  /\ UNCHANGED bookingVars
  /\ UNCHANGED pushQueue
  /\ UNCHANGED <<feed, deciding>>
  /\ UNCHANGED appVars

\* the visitors handler of the terminal's channel, for the event at position j
\* of its feed
onSecurityVisitorsChange(g, j) ==
  /\ g \in DOMAIN feed
  /\ j \in 1..Len(feed[g])
  /\ feed[g][j].at = "flight"
  /\ LET payload == feed[g][j]
     IN secVisitors' = [secVisitors EXCEPT
          ![g] = IF payload.eventType = "INSERT"
                 THEN <<payload.new>> \o @
                 ELSE [i \in 1..Len(@) |->
                         IF @[i].id = payload.new.id THEN payload.new ELSE @[i]]]
  /\ feed' = [feed EXCEPT ![g] = Without(@, j)]
  /\ UNCHANGED <<visitors, hist, pendingRequests, resVisitors, verifying, verifyData,
                 feedback, requestForm, residentProfile, pushQueue, deciding>>
  /\ UNCHANGED bookingVars
  /\ UNCHANGED appVars

\* an event the channel never delivers
loseEvent(c, j) ==
  /\ c \in DOMAIN feed
  /\ j \in 1..Len(feed[c])
  /\ feed[c][j].at = "flight"
  /\ feed' = [feed EXCEPT ![c][j].at = "lost"]
  /\ UNCHANGED <<visitors, hist, pendingRequests, resVisitors, secVisitors, verifying,
                 verifyData, feedback, requestForm, residentProfile, pushQueue, deciding>>
  /\ UNCHANGED bookingVars
  /\ UNCHANGED appVars

\* setTimeout(() => setFeedback(null), 5000)
clearFeedback(g) ==
  /\ feedback[g] # "none"
  /\ feedback' = [feedback EXCEPT ![g] = "none"]
  /\ UNCHANGED <<visitors, hist, pendingRequests, resVisitors, secVisitors, verifying,
                 verifyData, requestForm, residentProfile>>
  /\ UNCHANGED bookingVars
  /\ UNCHANGED pushQueue
  /\ UNCHANGED <<feed, deciding>>
  /\ UNCHANGED appVars

\* the select without its code filter
PendingWithCodeAnyCode(vs, b, code) ==
  {i \in 1..Len(vs) : vs[i].building_id = b /\ vs[i].status = "PENDING"}

\* the select without its tenant filter
PendingWithCodeAnyTenant(vs, b, code) ==
  {i \in 1..Len(vs) : vs[i].invite_code = code /\ vs[i].status = "PENDING"}

\* the select without its status filter
PendingWithCodeAnyStatus(vs, b, code) ==
  {i \in 1..Len(vs) : vs[i].building_id = b /\ vs[i].invite_code = code}

\* select * from visitors where building_id, invite_code, status = 'PENDING'
PendingWithCode(vs, b, code) ==
  {i \in 1..Len(vs) : /\ vs[i].building_id = b
                      /\ vs[i].invite_code = code
                      /\ vs[i].status = "PENDING"}

\* a lookup that takes the first of several matching rows
maybeSingleFirst(rows) == IF rows = {} THEN 0 ELSE CHOOSE i \in rows : TRUE

\* .maybeSingle(): the row when exactly one matches, otherwise no data
maybeSingle(rows) == IF Cardinality(rows) = 1 THEN CHOOSE i \in rows : TRUE ELSE 0

\* has this code already admitted a visitor of building b
CodeUsed(b, code) ==
  \E i \in Ids : /\ visitors[i].building_id = b
                  /\ visitors[i].invite_code = code
                  /\ hist[i].admitted

\* handleVerifyCode up to the answer of the select; verifyData keeps the row
\* found (0: none), the code in the input field, and whether the code had been
\* used when it was looked up
handleVerifyCode(g, code) ==
  /\ ~verifying[g]
  /\ LET data == maybeSingle(PendingWithCode(visitors, Building[g], code))
     IN /\ verifyData' = [verifyData EXCEPT
                            ![g] = [id |-> data, used |-> CodeUsed(Building[g], code),
                                    inviteCode |-> code]]
        /\ IF data = 0
           THEN /\ feedback' = [feedback EXCEPT ![g] = "error"]
                /\ UNCHANGED verifying
           ELSE /\ verifying' = [verifying EXCEPT ![g] = TRUE]
                /\ UNCHANGED feedback
  /\ UNCHANGED <<visitors, hist, pendingRequests, resVisitors, secVisitors,
                 requestForm, residentProfile>>
  /\ UNCHANGED bookingVars
  /\ UNCHANGED pushQueue
  /\ UNCHANGED <<feed, deciding>>
  /\ UNCHANGED appVars

\* handleVerifyCode from the update to the end of the handler
handleVerifyCodeUpdate(g, dbOk) ==
  /\ verifying[g]
  /\ verifyData[g].id # 0
  /\ IF dbOk
     THEN LET vs == UpdateEntered(visitors, verifyData[g].id)
          IN /\ visitors' = vs
             /\ hist' = BumpAdmitted(TrackStatus(hist, vs), verifyData[g].id)
     ELSE UNCHANGED <<visitors, hist>>
  /\ feedback' = [feedback EXCEPT ![g] = "success"]
  /\ verifying' = [verifying EXCEPT ![g] = FALSE]
  /\ verifyData' = [verifyData EXCEPT
                       ![g] = [id |-> 0, used |-> FALSE, inviteCode |-> NoCode]]
  /\ UNCHANGED <<pendingRequests, resVisitors, secVisitors, requestForm, residentProfile>>
  /\ UNCHANGED bookingVars
  /\ UNCHANGED pushQueue
  /\ feed' = IF dbOk THEN Publish(feed, "UPDATE", visitors', verifyData[g].id) ELSE feed
  /\ UNCHANGED deciding
  /\ UNCHANGED appVars

\* the request form's flat number field
editFlatNumber(g, flat) ==
  /\ requestForm[g] # flat
  /\ requestForm' = [requestForm EXCEPT ![g] = flat]
  /\ UNCHANGED <<visitors, hist, pendingRequests, resVisitors, secVisitors, verifying,
                 verifyData, feedback, residentProfile>>
  /\ UNCHANGED bookingVars
  /\ UNCHANGED pushQueue
  /\ UNCHANGED <<feed, deciding>>
  /\ UNCHANGED appVars

\* select * from profiles where building_id, flat_number .maybeSingle()
ProfileFor(b, flat) ==
  LET rows == {r \in Residents : Building[r] = b /\ Flat[r] = flat}
  IN IF Cardinality(rows) = 1 THEN CHOOSE r \in rows : TRUE ELSE NULL

\* the debounced lookup, 400 ms after the last edit of the form
checkResident(g) ==
  /\ residentProfile' = [residentProfile EXCEPT
       ![g] = IF requestForm[g] # "" THEN ProfileFor(Building[g], requestForm[g]) ELSE NULL]
  /\ residentProfile'[g] # residentProfile[g]
  /\ UNCHANGED <<visitors, hist, pendingRequests, resVisitors, secVisitors, verifying,
                 verifyData, feedback, requestForm>>
  /\ UNCHANGED bookingVars
  /\ UNCHANGED pushQueue
  /\ UNCHANGED <<feed, deciding>>
  /\ UNCHANGED appVars

\* the form is submitted with its required flat number filled in
handleRequestEntry(g, dbOk) ==
  /\ ~verifying[g]
  /\ requestForm[g] # ""
  /\ IF residentProfile[g] = NULL \/ ~Verified[residentProfile[g]]
     THEN /\ feedback' = [feedback EXCEPT ![g] = "error"]
          /\ UNCHANGED <<visitors, hist, requestForm>>
     ELSE IF dbOk
          THEN LET row == [building_id |-> Building[g], flat_number |-> requestForm[g],
                           type |-> "WALK_IN", status |-> "WAITING_APPROVAL",
                           invite_code |-> NoCode,
                           check_in_at |-> NULL, check_out_at |-> NULL]
                   vs == Append(visitors, row)
               IN /\ visitors' = vs
                  /\ hist' = TrackStatus(hist, vs)
                  /\ feedback' = [feedback EXCEPT ![g] = "info"]
                  /\ requestForm' = [requestForm EXCEPT ![g] = ""]
          ELSE /\ feedback' = [feedback EXCEPT ![g] = "error"]
               /\ UNCHANGED <<visitors, hist, requestForm>>
  /\ UNCHANGED <<pendingRequests, resVisitors, secVisitors, verifying, verifyData,
                 residentProfile>>
  /\ UNCHANGED bookingVars
  /\ UNCHANGED pushQueue
  /\ feed' = IF Len(visitors') > Len(visitors) THEN Publish(feed, "INSERT", visitors', Len(visitors')) ELSE feed
  /\ UNCHANGED deciding
  /\ UNCHANGED appVars

\* ------------------------ security dashboard, the build invoking send-push
\* the invoke without its own try/catch: a throw reaches the handler's catch
invokeFeedbackUncaught(state) == IF state = "threw" THEN "error" ELSE "info"

\* the feedback after the invoke: its try/catch keeps a failure to itself
invokeFeedback(state) == "info"

\* handleRequestEntry up to supabase.functions.invoke('send-push', ...): the row
\* is inserted and the request { record } is sent, or the invoke throws
handleRequestEntryInvoke(g, dbOk, threw) ==
  /\ ~verifying[g]
  /\ requestForm[g] # ""
  /\ IF residentProfile[g] = NULL \/ ~Verified[residentProfile[g]]
     THEN /\ feedback' = [feedback EXCEPT ![g] = "error"]
          /\ UNCHANGED <<visitors, hist, verifying, pushQueue>>
     ELSE IF dbOk
          THEN LET row == [building_id |-> Building[g], flat_number |-> requestForm[g],
                           type |-> "WALK_IN", status |-> "WAITING_APPROVAL",
                           invite_code |-> NoCode,
                           check_in_at |-> NULL, check_out_at |-> NULL]
                   vs == Append(visitors, row)
               IN /\ visitors' = vs
                  /\ hist' = TrackStatus(hist, vs)
                  /\ verifying' = [verifying EXCEPT ![g] = TRUE]
                  /\ pushQueue' = Append(pushQueue,
                        [record |-> Len(vs), status |-> row.status, gate |-> g,
                         state |-> IF threw THEN "threw" ELSE "sent",
                         delivered |-> {}, failed |-> {}, awaited |-> TRUE])
                  /\ UNCHANGED feedback
          ELSE /\ feedback' = [feedback EXCEPT ![g] = "error"]
               /\ UNCHANGED <<visitors, hist, verifying, pushQueue>>
  /\ UNCHANGED <<pendingRequests, resVisitors, secVisitors, verifyData, requestForm,
                 residentProfile>>
  /\ UNCHANGED bookingVars
  /\ feed' = IF Len(visitors') > Len(visitors) THEN Publish(feed, "INSERT", visitors', Len(visitors')) ELSE feed
  /\ UNCHANGED deciding
  /\ UNCHANGED appVars

\* handleRequestEntry from the end of the invoke to the end of the handler
handleRequestEntryResume(g) ==
  /\ verifying[g]
  /\ \E i \in 1..Len(pushQueue) :
        /\ pushQueue[i].gate = g
        /\ pushQueue[i].awaited
        /\ pushQueue[i].state # "sent"
        /\ pushQueue' = [pushQueue EXCEPT ![i].awaited = FALSE]
        /\ feedback' = [feedback EXCEPT ![g] = invokeFeedback(pushQueue[i].state)]
  /\ requestForm' = [requestForm EXCEPT ![g] = ""]
  /\ verifying' = [verifying EXCEPT ![g] = FALSE]
  /\ UNCHANGED <<visitors, hist, pendingRequests, resVisitors, secVisitors, verifyData,
                 residentProfile>>
  /\ UNCHANGED bookingVars
  /\ UNCHANGED <<feed, deciding>>
  /\ UNCHANGED appVars

\* ----------------------------------------------- send-push: the webhook
Channels == {"push", "telegram"}

\* the answer of send-push to { record }: channels are those of the unit's
\* profile (none when the lookup fails), crash is a throw outside the channels
WebhookAnswer(status, channels, crash) ==
  IF crash THEN "error"
  ELSE IF status # "WAITING_APPROVAL" THEN "ignored"
  ELSE IF channels = {} THEN "nochannel"
  ELSE "success"

\* both deliveries in one try block: a failed web push skips Telegram
DeliveredOneTry(status, channels, ok, crash) ==
  IF WebhookAnswer(status, channels, crash) = "success" /\ ("push" \in channels => "push" \in ok)
  THEN channels \cap ok
  ELSE {}

\* the channels whose delivery failed and was logged in the channel's catch
Failed(status, channels, ok, crash) ==
  IF WebhookAnswer(status, channels, crash) = "success" THEN channels \ ok ELSE {}

\* the channels that delivered: each delivery is tried in its own try/catch
Delivered(status, channels, ok, crash) ==
  IF WebhookAnswer(status, channels, crash) = "success" THEN channels \cap ok ELSE {}

serveWebhook(i, channels, ok, crash) ==
  /\ i \in 1..Len(pushQueue)
  /\ pushQueue[i].state = "sent"
  /\ pushQueue' = [pushQueue EXCEPT
        ![i].state = WebhookAnswer(pushQueue[i].status, channels, crash),
        ![i].delivered = Delivered(pushQueue[i].status, channels, ok, crash),
        ![i].failed = Failed(pushQueue[i].status, channels, ok, crash)]
  /\ UNCHANGED visitorVars
  /\ UNCHANGED bookingVars
  /\ UNCHANGED <<feed, deciding>>
  /\ UNCHANGED appVars

handleExit(g, id) ==
  /\ \E i \in 1..Len(secVisitors[g]) :
        secVisitors[g][i].id = id /\ secVisitors[g][i].status = "ENTERED"
  /\ LET vs == UpdateExited(visitors, id)
     IN /\ visitors' = vs
        /\ hist' = TrackStatus(hist, vs)
        /\ secVisitors' = [secVisitors EXCEPT ![g] = DescendingOf(vs, GateRows(vs, g), Len(vs))]
  /\ feedback' = [feedback EXCEPT ![g] = "success"]
  /\ UNCHANGED <<pendingRequests, resVisitors, verifying, verifyData, requestForm,
                 residentProfile>>
  /\ UNCHANGED bookingVars
  /\ UNCHANGED pushQueue
  /\ feed' = Publish(feed, "UPDATE", visitors', id)
  /\ UNCHANGED deciding
  /\ UNCHANGED appVars

\* ------------------------------------------------- portal login and App
\* no row of profiles, no profile loaded
NoProfile == [role |-> NULL, is_verified |-> FALSE]
\* no login under way
NoLogin == [awaited |-> FALSE, data |-> NoProfile]

\* the upsert writing is_verified: true, as it does for the staff roles
UpsertVerifiedAlways(role, existing) == TRUE

\* is_verified of the upsert:
\* role === RESIDENT ? (existingProfile?.is_verified ?? false) : true
UpsertVerified(role, existing) ==
  IF role = "RESIDENT"
  THEN IF existing = NoProfile THEN FALSE ELSE existing.is_verified
  ELSE TRUE

\* update profiles set is_verified where id = id, sent with the session of q:
\* profiles_self_manage lets a session write its own row, the other policies
\* of profiles are FOR SELECT
UpdateVerified(pf, q, id, isVerified) ==
  IF q = id /\ pf[id] # NoProfile THEN [pf EXCEPT ![id].is_verified = isVerified] ELSE pf

\* handlePortalLogin of a resident up to the answer of the identity lock
\* check, which reads the stored profile
handlePortalLogin(u) ==
  /\ profile[u] = NoProfile
  /\ ~existingProfile[u].awaited
  /\ existingProfile' = [existingProfile EXCEPT ![u] = [awaited |-> TRUE, data |-> profiles[u]]]
  /\ UNCHANGED <<profiles, profile>>
  /\ UNCHANGED <<visitorVars, bookingVars, pushQueue, feed, deciding>>

\* handlePortalLogin from the upsert on: onLoginSuccess loads the profile into
\* App; after a failed upsert the session is signed out
handlePortalLoginUpsert(u, dbOk) ==
  /\ existingProfile[u].awaited
  /\ existingProfile' = [existingProfile EXCEPT ![u] = NoLogin]
  /\ IF dbOk
     THEN LET row == [role |-> "RESIDENT",
                      is_verified |-> UpsertVerified("RESIDENT", existingProfile[u].data)]
          IN /\ profiles' = [profiles EXCEPT ![u] = row]
             /\ profile' = [profile EXCEPT ![u] = row]
     ELSE UNCHANGED <<profiles, profile>>
  /\ UNCHANGED <<visitorVars, bookingVars, pushQueue, feed, deciding>>

\* fetchProfile of a signed-in user, as run when the page is loaded again
fetchProfile(u) ==
  /\ profile[u] # NoProfile
  /\ profile' = [profile EXCEPT ![u] = profiles[u]]
  /\ UNCHANGED <<profiles, existingProfile>>
  /\ UNCHANGED <<visitorVars, bookingVars, pushQueue, feed, deciding>>

\* supabase.auth.signOut()
signOut(u) ==
  /\ profile[u] # NoProfile
  /\ profile' = [profile EXCEPT ![u] = NoProfile]
  /\ UNCHANGED <<profiles, existingProfile>>
  /\ UNCHANGED <<visitorVars, bookingVars, pushQueue, feed, deciding>>

\* the Approve / Revoke button of the building admin a1
handleVerifyResident(id, isVerified, dbOk) ==
  /\ profiles[id] # NoProfile
  /\ profiles' = IF dbOk THEN UpdateVerified(profiles, "a1", id, isVerified) ELSE profiles
  /\ UNCHANGED <<existingProfile, profile>>
  /\ UNCHANGED <<visitorVars, bookingVars, pushQueue, feed, deciding>>

\* renderDashboard of App.tsx, for a profile with its building
renderDashboard(p) ==
  CASE p.role = "SUPER_ADMIN" -> "SuperAdminDashboard"
    [] p.role = "BUILDING_ADMIN" -> "BuildingAdminDashboard"
    [] p.role = "RESIDENT" -> "ResidentDashboard"
    [] p.role = "SECURITY" -> "SecurityDashboard"
    [] OTHER -> "Login"

\* what App shows to user u
Screen(u) == IF profile[u] = NoProfile THEN "Login" ELSE renderDashboard(profile[u])

\* --------------------------------------------------------- specification
\* the profiles table as the residents stand in it, nobody signed in
InitProfiles ==
  /\ profiles = [u \in Residents |-> [role |-> "RESIDENT", is_verified |-> Verified[u]]]
  /\ existingProfile = [u \in Residents |-> NoLogin]
  /\ profile = [u \in Residents |-> NoProfile]

InitVisitors ==
  /\ visitors = <<>>
  /\ hist = <<>>
  /\ pendingRequests = [r \in Residents |-> <<>>]
  /\ resVisitors = [r \in Residents |-> <<>>]
  /\ secVisitors = [g \in Gates |-> <<>>]
  /\ verifying = [g \in Gates |-> FALSE]
  /\ verifyData = [g \in Gates |-> [id |-> 0, used |-> FALSE, inviteCode |-> NoCode]]
  /\ feedback = [g \in Gates |-> "none"]
  /\ requestForm = [g \in Gates |-> ""]
  /\ residentProfile = [g \in Gates |-> NULL]
  /\ pushQueue = <<>>
  /\ feed = <<>>
  /\ deciding = [r \in Residents |-> {}]
  /\ InitProfiles

InitBookings ==
  /\ amenities = <<>>
  /\ bookings = {}
  /\ resAmenities = [r \in Residents |-> <<>>]
  /\ myBookings = [r \in Residents |-> {}]
  /\ submitting = [r \in Residents |-> FALSE]
  /\ bookingForm = [r \in Residents |-> NoForm]
  /\ bookingResult = [alert |-> "none", emptyRange |-> FALSE]

Init == InitVisitors /\ InitBookings

Next ==
  \/ \E r \in OpenDashboards : fetchData(r)
  \/ \E r \in OpenDashboards, k \in RandNums, dbOk \in BOOLEAN :
        Len(visitors) < MaxVisitors /\ handleInviteVisitor(r, k, dbOk)
  \/ \E r \in OpenDashboards, id \in 1..MaxVisitors, st \in {"ENTERED", "REJECTED"}, dbOk \in BOOLEAN :
        handleDecision(r, id, st, dbOk)
  \/ \E a \in {"approve", "deny", "other"}, id \in 1..MaxVisitors, dbOk \in BOOLEAN :
        serveCallback(a, id, dbOk)
  \/ \E g \in DeskGates : refreshData(g)
  \/ \E g \in Gates : clearFeedback(g)
  \/ \E g \in Gates, k \in RandNums : handleVerifyCode(g, invite_code(k))
  \/ \E g \in Gates, dbOk \in BOOLEAN : handleVerifyCodeUpdate(g, dbOk)
  \/ \E g \in DeskGates, f \in FlatInputs \cup {""} : editFlatNumber(g, f)
  \/ \E g \in DeskGates : checkResident(g)
  \/ \E g \in DeskGates, dbOk \in BOOLEAN :
        Len(visitors) < MaxVisitors /\ handleRequestEntry(g, dbOk)
  \/ \E g \in DeskGates, id \in 1..MaxVisitors : handleExit(g, id)

Spec == Init /\ [][Next]_vars

\* the passes the residents issue and the two terminals that scan them; the
\* Telegram buttons are sent for WAITING_APPROVAL visitors only, so no callback
\* arrives for a pass
NextPass ==
  \/ \E r \in PassIssuers, k \in RandNums, dbOk \in BOOLEAN :
        Len(visitors) < MaxPasses /\ handleInviteVisitor(r, k, dbOk)
  \/ \E g \in Gates, k \in RandNums : handleVerifyCode(g, invite_code(k))
  \/ \E g \in Gates, dbOk \in BOOLEAN : handleVerifyCodeUpdate(g, dbOk)
  \/ \E g \in Gates : clearFeedback(g)

SpecPass == Init /\ [][NextPass]_vars

\* the bookings of one building: an amenity provisioned with its hours, which
\* the residents' dashboards loaded when they were mounted, the amenities the
\* admin adds, and the residents who book them
InitBooking ==
  /\ InitVisitors
  /\ amenities = <<[building_id |-> "b1", open_time |-> T0900, close_time |-> T1000,
                    openTime |-> T0900, closeTime |-> T1000]>>
  /\ bookings = {}
  /\ resAmenities = [r \in Residents |->
        IF r \in BookingResidents THEN FetchedAmenities(amenities, Building[r]) ELSE <<>>]
  /\ myBookings = [r \in Residents |-> {}]
  /\ submitting = [r \in Residents |-> FALSE]
  /\ bookingForm = [r \in Residents |-> NoForm]
  /\ bookingResult = [alert |-> "none", emptyRange |-> FALSE]

BookingForms(r) ==
  {[amenityId |-> a, date |-> d, startTime |-> t[1], endTime |-> t[2]] :
     a \in ListIds(resAmenities[r]) \cup {0}, d \in DateInputs, t \in IntervalInputs}

NextBooking ==
  \/ \E r \in BookingResidents : fetchData(r)
  \/ \E r \in BookingResidents, dbOk \in BOOLEAN :
        \E form \in BookingForms(r) : handleBooking(r, form, dbOk)
  \/ \E r \in BookingResidents, dbOk \in BOOLEAN :
        (dbOk => Cardinality(bookings) < MaxBookings) /\ handleBookingInsert(r, dbOk)
  \/ \E h \in AdminHours, drops \in BOOLEAN :
        Len(amenities) < MaxAmenities /\ handleAddAmenity("b1", h[1], h[2], drops)

SpecBooking == InitBooking /\ [][NextBooking]_vars

\* the bookings with their cancellation: the cancel button of the resident
\* dashboard, and the delete request sent with any session
NextCancel ==
  \/ \E r \in BookingResidents : fetchData(r)
  \/ \E r \in BookingResidents, dbOk \in BOOLEAN :
        \E form \in BookingForms(r) : handleBooking(r, form, dbOk)
  \/ \E r \in BookingResidents, dbOk \in BOOLEAN :
        (dbOk => Cardinality(bookings) < MaxBookings) /\ handleBookingInsert(r, dbOk)
  \/ \E r \in BookingResidents, dbOk \in BOOLEAN :
        \E b \in myBookings[r] : handleDeleteBooking(r, b, dbOk)
  \/ \E q \in Requesters, dbOk \in BOOLEAN :
        \E b \in bookings : deleteRequest(q, b, dbOk)

SpecCancel == InitBooking /\ [][NextCancel]_vars

\* the walk-in desk with its notifications: both builds of the request form,
\* send-push serving the webhook and the Telegram buttons
NextNotify ==
  \/ \E g \in DeskGates, flat \in FlatInputs : editFlatNumber(g, flat)
  \/ \E g \in DeskGates : checkResident(g)
  \/ \E g \in DeskGates, dbOk \in BOOLEAN :
        (dbOk => Len(visitors) < MaxVisitors) /\ handleRequestEntry(g, dbOk)
  \/ \E g \in DeskGates, dbOk \in BOOLEAN, threw \in BOOLEAN :
        (dbOk => Len(visitors) < MaxVisitors) /\ handleRequestEntryInvoke(g, dbOk, threw)
  \/ \E g \in DeskGates : handleRequestEntryResume(g)
  \/ \E i \in 1..MaxVisitors, channels \in SUBSET Channels, crash \in BOOLEAN :
        \E ok \in SUBSET channels : serveWebhook(i, channels, ok, crash)
  \/ \E a \in {"approve", "deny"}, id \in 1..MaxVisitors : serveCallback(a, id, TRUE)
  \/ \E g \in DeskGates : clearFeedback(g)

SpecNotify == Init /\ [][NextNotify]_vars

\* the dashboards with their realtime channels: the resident r1 and the desk
\* terminal g1 are subscribed to the changes of visitors
Subscribed == {"r1", "g1"}

\* the dashboards just mounted, the channels of S subscribed
InitChannels(S) ==
  /\ visitors = <<>>
  /\ hist = <<>>
  /\ pendingRequests = [r \in Residents |-> <<>>]
  /\ resVisitors = [r \in Residents |-> <<>>]
  /\ secVisitors = [g \in Gates |-> <<>>]
  /\ verifying = [g \in Gates |-> FALSE]
  /\ verifyData = [g \in Gates |-> [id |-> 0, used |-> FALSE, inviteCode |-> NoCode]]
  /\ feedback = [g \in Gates |-> "none"]
  /\ requestForm = [g \in Gates |-> ""]
  /\ residentProfile = [g \in Gates |-> NULL]
  /\ pushQueue = <<>>
  /\ feed = [c \in S |-> <<>>]
  /\ deciding = [r \in Residents |-> {}]
  /\ InitProfiles
  /\ InitBookings

InitRealtime == InitChannels(Subscribed)

\* every channel has room for one more event
FeedRoom == \A c \in DOMAIN feed : Len(feed[c]) < MaxFeed

NextRealtime ==
  \/ \E r \in OpenDashboards : fetchData(r)
  \/ \E r \in OpenDashboards, dbOk \in BOOLEAN :
        Len(visitors) < MaxVisitors /\ FeedRoom /\ handleInviteVisitor(r, 0, dbOk)
  \/ \E r \in OpenDashboards, id \in 1..MaxVisitors, st \in {"ENTERED", "REJECTED"} :
        Cardinality(deciding[r]) < MaxDeciding /\ handleDecisionOptimistic(r, id, st)
  \/ \E r \in OpenDashboards, dbOk \in BOOLEAN :
        \E d \in deciding[r] : FeedRoom /\ handleDecisionUpdate(r, d, dbOk)
  \/ \E r \in OpenDashboards, j \in 1..MaxFeed : onVisitorsChange(r, j)
  \/ \E g \in DeskGates, j \in 1..MaxFeed : onSecurityVisitorsChange(g, j)
  \/ \E a \in {"approve", "deny"}, id \in Ids :
        visitors[id].type = "WALK_IN" /\ FeedRoom /\ serveCallback(a, id, TRUE)
  \/ \E g \in DeskGates : editFlatNumber(g, "101")
  \/ \E g \in DeskGates : checkResident(g)
  \/ \E g \in DeskGates :
        Len(visitors) < MaxVisitors /\ FeedRoom /\ handleRequestEntry(g, TRUE)
  \/ \E g \in DeskGates, id \in 1..MaxVisitors : FeedRoom /\ handleExit(g, id)
  \/ \E g \in DeskGates : refreshData(g)

SpecRealtime == InitRealtime /\ [][NextRealtime]_vars

\* the resident dashboard alone on its channel: the walk-in desk and the
\* Telegram buttons write, the dashboard fetches, decides and handles events
InitResident == InitChannels(OpenDashboards)

NextResident ==
  \/ \E r \in OpenDashboards : fetchData(r)
  \/ \E r \in OpenDashboards, id \in 1..MaxVisitors, st \in {"ENTERED", "REJECTED"} :
        Cardinality(deciding[r]) < MaxDeciding /\ handleDecisionOptimistic(r, id, st)
  \/ \E r \in OpenDashboards, dbOk \in BOOLEAN :
        \E d \in deciding[r] : FeedRoom /\ handleDecisionUpdate(r, d, dbOk)
  \/ \E r \in OpenDashboards, j \in 1..MaxFeed : onVisitorsChange(r, j)
  \/ \E a \in {"approve", "deny"}, id \in Ids :
        visitors[id].type = "WALK_IN" /\ FeedRoom /\ serveCallback(a, id, TRUE)
  \/ \E g \in DeskGates : editFlatNumber(g, "101")
  \/ \E g \in DeskGates : checkResident(g)
  \/ \E g \in DeskGates :
        Len(visitors) < MaxVisitors /\ FeedRoom /\ handleRequestEntry(g, TRUE)

SpecResident == InitResident /\ [][NextResident]_vars

\* the portal and the app shell: r1 is verified, r2 waits for verification, r3
\* has not registered yet; residents sign in and out, the admin presses
\* Approve and Revoke, and whoever is shown the resident dashboard issues passes
Registered == {"r1", "r2"}

InitApp ==
  /\ visitors = <<>>
  /\ hist = <<>>
  /\ pendingRequests = [r \in Residents |-> <<>>]
  /\ resVisitors = [r \in Residents |-> <<>>]
  /\ secVisitors = [g \in Gates |-> <<>>]
  /\ verifying = [g \in Gates |-> FALSE]
  /\ verifyData = [g \in Gates |-> [id |-> 0, used |-> FALSE, inviteCode |-> NoCode]]
  /\ feedback = [g \in Gates |-> "none"]
  /\ requestForm = [g \in Gates |-> ""]
  /\ residentProfile = [g \in Gates |-> NULL]
  /\ pushQueue = <<>>
  /\ feed = <<>>
  /\ deciding = [r \in Residents |-> {}]
  /\ profiles = [u \in Residents |->
        IF u \in Registered THEN [role |-> "RESIDENT", is_verified |-> Verified[u]] ELSE NoProfile]
  /\ existingProfile = [u \in Residents |-> NoLogin]
  /\ profile = [u \in Residents |-> NoProfile]
  /\ InitBookings

NextApp ==
  \/ \E u \in Residents : handlePortalLogin(u)
  \/ \E u \in Residents, dbOk \in BOOLEAN : handlePortalLoginUpsert(u, dbOk)
  \/ \E u \in Residents : fetchProfile(u)
  \/ \E u \in Residents : signOut(u)
  \/ \E id \in Residents, isVerified \in BOOLEAN, dbOk \in BOOLEAN :
        handleVerifyResident(id, isVerified, dbOk)
  \/ \E r \in Residents :
        /\ Screen(r) = "ResidentDashboard"
        /\ Len(visitors) < MaxVisitors
        /\ handleInviteVisitor(r, 0, TRUE)

SpecApp == InitApp /\ [][NextApp]_vars

\* the desk terminal on a channel that may lose events: residents issue
\* passes, the terminal checks visitors in and out and handles the events
InitDesk == InitChannels(DeskGates)

NextDesk ==
  \/ \E r \in OpenDashboards, dbOk \in BOOLEAN :
        Len(visitors) < MaxVisitors /\ FeedRoom /\ handleInviteVisitor(r, 0, dbOk)
  \/ \E g \in DeskGates : handleVerifyCode(g, invite_code(0))
  \/ \E g \in DeskGates, dbOk \in BOOLEAN : FeedRoom /\ handleVerifyCodeUpdate(g, dbOk)
  \/ \E g \in DeskGates, id \in 1..MaxVisitors : FeedRoom /\ handleExit(g, id)
  \/ \E g \in DeskGates : refreshData(g)
  \/ \E g \in DeskGates : clearFeedback(g)
  \/ \E g \in DeskGates, j \in 1..MaxFeed : onSecurityVisitorsChange(g, j)
  \/ \E g \in DeskGates, j \in 1..MaxFeed : loseEvent(g, j)

\* the channel hands over every event it does not lose, a request to the
\* database is answered and the feedback timer fires; nothing schedules
\* refreshData, which runs when the dashboard is mounted
FairDesk ==
  /\ \A g \in DeskGates, j \in 1..MaxFeed : WF_vars(onSecurityVisitorsChange(g, j))
  /\ \A g \in DeskGates : WF_vars(\E dbOk \in BOOLEAN : handleVerifyCodeUpdate(g, dbOk))
  /\ \A g \in DeskGates : WF_vars(clearFeedback(g))

SpecDesk == InitDesk /\ [][NextDesk]_vars /\ FairDesk

\* ================================================================ properties
Terminal == {"EXITED", "REJECTED"}

\* a decide call on visitor v, from the resident dashboard or the Telegram callback
DecideCalled(v) ==
  \/ \E r \in Residents, st \in {"ENTERED", "REJECTED"}, dbOk \in BOOLEAN :
        handleDecision(r, v, st, dbOk)
  \/ \E a \in {"approve", "deny", "other"}, dbOk \in BOOLEAN : serveCallback(a, v, dbOk)

\* C1: of two decide calls on a visitor that waits for approval exactly one
\* succeeds: once a decide call has been applied to a walk-in visitor, a further
\* decide call on it leaves the visitor as it is
C1_OneDecideWins ==
  [][\A v \in Ids :
       (visitors[v].type = "WALK_IN" /\ hist[v].decided /\ DecideCalled(v))
         => visitors'[v] = visitors[v]]_vars

\* C2: a decide call changes a visitor only when its stored status is
\* WAITING_APPROVAL; in any other status it leaves status and check_in_at alone
C2_DecideOnlyWhenWaiting ==
  [][\A v \in Ids :
       (visitors[v].status # "WAITING_APPROVAL" /\ DecideCalled(v))
         => /\ visitors'[v].status = visitors[v].status
            /\ visitors'[v].check_in_at = visitors[v].check_in_at]_vars

\* C3: once a visitor's status is EXITED or REJECTED it never changes again
C3_TerminalIsFinal ==
  [][\A v \in Ids :
       visitors[v].status \in Terminal => visitors'[v].status = visitors[v].status]_vars

\* C4: check_in_at is set exactly for the visitors whose status has been ENTERED
\* or EXITED at some point, and once set it is never cleared
C4_CheckInIffEntered ==
  /\ [](\A v \in Ids : (visitors[v].check_in_at # NULL) <=> hist[v].everIn)
  /\ [][\A v \in Ids : visitors[v].check_in_at # NULL => visitors'[v].check_in_at # NULL]_vars

\* a PENDING pass of building b with this code that no validateCode has admitted
NewPass(b, code) ==
  \E i \in Ids : /\ visitors[i].building_id = b
                 /\ visitors[i].invite_code = code
                 /\ visitors[i].status = "PENDING"
                 /\ ~hist[i].admitted

\* C5: an invite code is single-use: a validateCode call with a code that has
\* already admitted a visitor of the tenant, no new pass with that code having
\* been issued, ends with the invalid-pass feedback, checks nobody in and
\* changes no visitor
C5_CodeIsSingleUse ==
  [][\A g \in Gates, k \in RandNums :
       (/\ CodeUsed(Building[g], invite_code(k))
        /\ ~NewPass(Building[g], invite_code(k))
        /\ handleVerifyCode(g, invite_code(k)))
         => /\ feedback'[g] = "error"
            /\ ~verifying'[g]
            /\ verifyData'[g].id = 0
            /\ visitors' = visitors]_vars

\* C5 witness: a terminal was refused a code that had admitted a visitor before
C5_Witness ==
  \E g \in Gates : /\ verifyData[g].used
                   /\ verifyData[g].id = 0
                   /\ feedback[g] = "error"
                   /\ \E v \in Ids : hist[v].admitted /\ visitors[v].status = "ENTERED"

\* C6: of two terminals that validate the same code for one PENDING visitor at
\* most one is granted access: a terminal that completes validateCode for a
\* visitor another call has already admitted shows no success and writes nothing
C6_OneTerminalAdmits ==
  [][\A g \in Gates :
       (/\ verifying[g] /\ ~verifying'[g]
        /\ verifyData[g].id \in Ids
        /\ hist[verifyData[g].id].admitted)
         => /\ feedback'[g] # "success"
            /\ visitors' = visitors]_vars

\* the half-open intervals of two bookings do not overlap
Disjoint(A, B) == StrGeq(A.start_time, B.end_time) \/ StrGeq(B.start_time, A.end_time)

\* C7: no two stored bookings of the same amenity and date overlap
C7_NoOverlap ==
  \A A, B \in bookings :
     (A # B /\ A.amenity_id = B.amenity_id /\ A.date = B.date) => Disjoint(A, B)

\* some stored booking of the form's amenity and date overlaps the proposal
Overlapped(form) ==
  \E b \in bookings :
     /\ b.amenity_id = form.amenityId
     /\ b.date = form.date
     /\ StrLess(b.start_time, form.endTime)
     /\ StrLess(form.startTime, b.end_time)

AllForms ==
  {[amenityId |-> a, date |-> d, startTime |-> t[1], endTime |-> t[2]] :
     a \in 1..Len(amenities), d \in DateInputs, t \in IntervalInputs}

\* C8: a proposal that passes the range and hours checks is answered SlotOccupied
\* exactly when a stored booking of the amenity and date overlaps it, and is
\* otherwise sent on to the insert
C8_OccupiedIffOverlap ==
  [][\A r \in BookingResidents, form \in AllForms :
       (/\ handleBooking(r, form, TRUE)
        /\ ~BadRange(form)
        /\ ~OutsideHours(resAmenities[r], form))
         => /\ (bookingResult'.alert = "SlotOccupied") <=> Overlapped(form)
            /\ submitting'[r] <=> ~Overlapped(form)]_vars

C10_InvalidRange ==
  /\ [](\A b \in bookings : StrLess(b.start_time, b.end_time))
  /\ [][(/\ bookingResult' # bookingResult
          /\ bookingResult'.emptyRange
          /\ bookingResult'.alert # "NoAmenity")
         => /\ bookingResult'.alert = "InvalidRange"
            /\ bookings' = bookings
            /\ submitting' = submitting
            /\ bookingForm' = bookingForm]_vars

\* C10 witness: an InvalidRange answer next to a stored booking
C10_Witness ==
  /\ bookingResult = [alert |-> "InvalidRange", emptyRange |-> TRUE]
  /\ bookings # {}

\* C11: a walk-in visitor is created only for a unit whose flat number, as
\* submitted, resolves to a resident profile with is_verified = true
C11_WalkInNeedsVerifiedUnit ==
  \A v \in Ids :
     visitors[v].type = "WALK_IN"
       => LET p == ProfileFor(visitors[v].building_id, visitors[v].flat_number)
          IN p # NULL /\ Verified[p]

\* C13: recordExit changes a visitor only when its stored status is ENTERED; on
\* any other stored status it leaves status and check_out_at as they are
C13_ExitOnlyWhenEntered ==
  [][\A g \in Gates, v \in Ids :
       (visitors[v].status # "ENTERED" /\ handleExit(g, v))
         => /\ visitors'[v].status = visitors[v].status
            /\ visitors'[v].check_out_at = visitors[v].check_out_at]_vars

\* C14: check_out_at is written by the transition ENTERED -> EXITED only, that
\* transition writes it, and a visitor with check_out_at set has status EXITED
C14_CheckOutIffExited ==
  /\ [](\A v \in Ids : visitors[v].check_out_at # NULL => visitors[v].status = "EXITED")
  /\ [][\A v \in Ids :
          /\ visitors'[v].check_out_at # visitors[v].check_out_at
               => visitors[v].status = "ENTERED" /\ visitors'[v].status = "EXITED"
          /\ (visitors[v].status = "ENTERED" /\ visitors'[v].status = "EXITED")
               => visitors'[v].check_out_at # NULL]_vars

\* no PENDING visitor of building b carries this code
NoPendingPass(b, code) ==
  ~\E i \in Ids : /\ visitors[i].building_id = b
                  /\ visitors[i].invite_code = code
                  /\ visitors[i].status = "PENDING"

\* C12: a validateCode call with a code that no PENDING visitor of the
\* terminal's tenant carries is refused and leaves every visitor of every
\* tenant as it is
C12_UnknownCodeChangesNothing ==
  [][\A g \in Gates, k \in RandNums :
       (/\ NoPendingPass(Building[g], invite_code(k))
        /\ handleVerifyCode(g, invite_code(k)))
         => /\ feedback'[g] = "error"
            /\ ~verifying'[g]
            /\ visitors' = visitors]_vars

\* C12 witness: a terminal was refused a code that only a PENDING visitor of
\* another tenant carries
C12_Witness ==
  \E g \in Gates :
     /\ feedback[g] = "error"
     /\ ~verifying[g]
     /\ verifyData[g].inviteCode # NoCode
     /\ NoPendingPass(Building[g], verifyData[g].inviteCode)
     /\ \E v \in Ids : /\ visitors[v].building_id # Building[g]
                       /\ visitors[v].invite_code = verifyData[g].inviteCode
                       /\ visitors[v].status = "PENDING"
     /\ ~\E v \in Ids : /\ visitors[v].building_id = Building[g]
                        /\ visitors[v].invite_code = verifyData[g].inviteCode

\* C16: within one tenant no two PENDING visitors carry the same invite_code
C16_PendingCodesUnique ==
  \A i, j \in Ids :
     (/\ i # j
      /\ visitors[i].status = "PENDING" /\ visitors[j].status = "PENDING"
      /\ visitors[i].building_id = visitors[j].building_id)
       => visitors[i].invite_code # visitors[j].invite_code

\* the number a string of decimal digits denotes
RECURSIVE DecimalValue(_)
DecimalValue(s) ==
  IF s = <<>> THEN 0 ELSE 10 * DecimalValue(SubSeq(s, 1, Len(s) - 1)) + s[Len(s)]

\* C17: a pass that issuePreApprovedPass stores is PRE_APPROVED and PENDING, has
\* no check_in_at, the tenant and unit of the resident who issued it, and a code
\* of 6 decimal digits whose value lies in 100000..999999
C17_IssuedPass ==
  [][Len(visitors') > Len(visitors) =>
       \A r \in PassIssuers, k \in RandNums :
          handleInviteVisitor(r, k, TRUE)
            => LET v == visitors'[Len(visitors')]
               IN /\ v.type = "PRE_APPROVED"
                  /\ v.status = "PENDING"
                  /\ v.check_in_at = NULL
                  /\ v.building_id = Building[r]
                  /\ v.flat_number = Flat[r]
                  /\ Len(v.invite_code) = 6
                  /\ \A d \in 1..6 : v.invite_code[d] \in 0..9
                  /\ DecimalValue(v.invite_code) \in 100000..999999]_vars

\* C17 witness: passes issued with the least and the greatest value of the
\* random source
C17_Witness ==
  /\ \E v \in Ids : /\ visitors[v].type = "PRE_APPROVED"
                    /\ DecimalValue(visitors[v].invite_code) = 100000
  /\ \E v \in Ids : /\ visitors[v].type = "PRE_APPROVED"
                    /\ DecimalValue(visitors[v].invite_code) = 999999

\* C15: a cancelBooking request deletes the booking when the requester owns it
\* or is an admin, and otherwise is answered Forbidden and leaves it stored
C15_CancelOwnerOrAdmin ==
  [][\A q \in Requesters :
       \A b \in bookings :
          deleteRequest(q, b, TRUE)
            => IF b.profile_id = q \/ Role[q] \in {"BUILDING_ADMIN", "SUPER_ADMIN"}
               THEN b \notin bookings'
               ELSE bookings' = bookings /\ bookingResult'.alert = "Forbidden"]_vars

\* a request to send-push that is over and has reached the resident on no channel
NotifyFailed(e) == e.state # "sent" /\ e.delivered = {}

\* C18: a failure to notify the resident neither removes nor alters the
\* WAITING_APPROVAL visitor of the request (nor any other visitor), and the
\* gate terminal shows the same feedback as after a delivery, never an error
C18_NotifyFailureSwallowed ==
  /\ [][\A i \in 1..Len(pushQueue') :
          (NotifyFailed(pushQueue'[i]) /\ (i > Len(pushQueue) \/ ~NotifyFailed(pushQueue[i])))
            => /\ \A v \in Ids : visitors'[v] = visitors[v]
               /\ pushQueue'[i].record \in 1..Len(visitors')
               /\ i > Len(pushQueue)
                    => visitors'[pushQueue'[i].record].status = "WAITING_APPROVAL"]_vars
  /\ [][\A i \in 1..Len(pushQueue) :
          (NotifyFailed(pushQueue[i]) /\ pushQueue[i].awaited /\ ~pushQueue'[i].awaited)
            => /\ visitors' = visitors
               /\ feedback'[pushQueue[i].gate] = "info"]_vars

C18_Witness ==
  \E i \in 1..Len(pushQueue) :
     /\ NotifyFailed(pushQueue[i])
     /\ pushQueue[i].state \in {"threw", "error", "success"}
     /\ ~pushQueue[i].awaited
     /\ feedback[pushQueue[i].gate] = "info"
     /\ visitors[pushQueue[i].record].status = "WAITING_APPROVAL"

\* C19: every WAITING_APPROVAL visitor created by a walk-in request has its
\* record sent to send-push
C19_WalkInIsNotified ==
  \A v \in Ids :
     visitors[v].type = "WALK_IN" =>
        \E i \in 1..Len(pushQueue) : pushQueue[i].record = v

\* no visitor of any tenant carries this code
NeverIssued(code) == ~\E i \in Ids : visitors[i].invite_code = code

\* C20: validateCode answers an already-used code as it answers a code that was
\* never issued: with either one the terminal shows the invalid-pass feedback,
\* finds no visitor, starts no check-in and the visitor table stays as it is
C20_UsedLikeNeverIssued ==
  [][\A g \in Gates :
       LET code == verifyData'[g].inviteCode
       IN (/\ verifyData'[g] # verifyData[g]
           /\ code # NoCode
           /\ \/ CodeUsed(Building[g], code) /\ ~NewPass(Building[g], code)
              \/ NeverIssued(code))
            => <<feedback'[g], verifying'[g], verifyData'[g].id, visitors'>>
                 = <<"error", FALSE, 0, visitors>>]_vars

\* C20 witness: one terminal was refused a used code, the other a code that no
\* visitor carries, and both show the same feedback
C20_Witness ==
  \E g, h \in Gates :
     /\ verifyData[g].used /\ verifyData[g].id = 0
     /\ ~NewPass(Building[g], verifyData[g].inviteCode)
     /\ verifyData[h].inviteCode # NoCode /\ verifyData[h].id = 0
     /\ NeverIssued(verifyData[h].inviteCode)
     /\ feedback[g] = "error" /\ feedback[h] = feedback[g]
     /\ ~verifying[g] /\ ~verifying[h]

\* C28: in the resident dashboard every visitor of pendingRequests is also in
\* the visitors list, with the same id and the status WAITING_APPROVAL
C28_PendingWithinVisitors ==
  \A r \in OpenDashboards :
     \A i \in 1..Len(pendingRequests[r]) :
        /\ pendingRequests[r][i].status = "WAITING_APPROVAL"
        /\ \E k \in 1..Len(resVisitors[r]) :
              /\ resVisitors[r][k].id = pendingRequests[r][i].id
              /\ resVisitors[r][k].status = "WAITING_APPROVAL"

\* C28 witness: a request is pending again, after a fetch or an INSERT event,
\* while the resident's decision on it is still on its way to the database
C28_Witness ==
  \E r \in OpenDashboards :
     /\ pendingRequests[r] # <<>>
     /\ deciding[r] # {}
     /\ \E d \in deciding[r] : d.id \in ListIds(pendingRequests[r])

\* a list holds at most one entry of each visitor id
OneEntryPerId(list) ==
  \A i, k \in 1..Len(list) : list[i].id = list[k].id => i = k

\* C21: whatever fetches and change events a dashboard has handled, its
\* visitors list and the resident's pendingRequests hold at most one entry of
\* each visitor id
C21_OneEntryPerVisitor ==
  /\ \A r \in OpenDashboards :
        OneEntryPerId(resVisitors[r]) /\ OneEntryPerId(pendingRequests[r])
  /\ \A g \in DeskGates : OneEntryPerId(secVisitors[g])

\* the visitors list of a channel's dashboard
LocalVisitors(c) == IF c \in Residents THEN resVisitors'[c] ELSE secVisitors'[c]

\* C22: when the UPDATE events of a visitor reach a dashboard in another order
\* than that of the writes, the dashboard's copy ends up equal to the last
\* write: once the last outstanding event of a visitor has been handled, every
\* entry of that visitor in the list has the stored status
C22_LastWriteWins ==
  [][\A c \in Subscribed :
       \A j \in 1..Len(feed[c]) :
          LET id == feed[c][j].new.id
          IN (/\ feed[c][j].eventType = "UPDATE"
              /\ feed'[c] = Without(feed[c], j)
              /\ visitors' = visitors
              /\ \A k \in 1..Len(feed'[c]) : feed'[c][k].new.id # id)
               => \A i \in 1..Len(LocalVisitors(c)) :
                     LocalVisitors(c)[i].id = id
                       => LocalVisitors(c)[i].status = visitors[id].status]_vars

\* the channel of c has lost an event
HasLost(c) == \E j \in 1..Len(feed[c]) : feed[c][j].at = "lost"

\* the terminal's list is what a full fetch would return
InSync(g) == secVisitors[g] = DescendingOf(visitors, GateRows(visitors, g), Len(visitors))

\* C23: after the loss of a change event the dashboard's visitors list becomes
\* equal to the stored visitors of its scope again, by a full re-fetch that no
\* user action has to start
C23_LostEventIsRepaired ==
  \A g \in DeskGates : HasLost(g) ~> InSync(g)

\* C24: a signed-in resident whose loaded profile is not verified is shown the
\* Access Pending screen, never the resident dashboard
C24_UnverifiedSeesAccessPending ==
  \A u \in Residents :
     (profile[u] # NoProfile /\ profile[u].role = "RESIDENT" /\ ~profile[u].is_verified)
       => Screen(u) = "AccessPending"

\* C29: a portal login never verifies a resident: the step of a login that
\* writes the profile leaves the stored is_verified of every resident as it
\* was, false where the resident had no profile before
C29_LoginNeverVerifies ==
  [][\A u \in Residents :
        existingProfile'[u] # existingProfile[u]
          => \A v \in Residents : profiles'[v].is_verified = profiles[v].is_verified]_vars

\* an unverified resident and a resident without a profile have both logged in
\* and are both stored unverified
C29_Witness ==
  /\ profile["r2"] # NoProfile /\ ~profiles["r2"].is_verified
  /\ profile["r3"] # NoProfile /\ profiles["r3"].role = "RESIDENT" /\ ~profiles["r3"].is_verified

\* C25: when two PENDING visitors of the terminal's tenant carry the same
\* invite_code, a validateCode call with that code admits neither of them: the
\* lookup yields no row, the terminal shows the invalid-pass feedback, and both
\* visitors stay PENDING
C25_AmbiguousCodeAdmitsNobody ==
  [][\A g \in Gates, k \in RandNums :
       (/\ Cardinality(PendingWithCode(visitors, Building[g], invite_code(k))) >= 2
        /\ handleVerifyCode(g, invite_code(k)))
         => /\ verifyData'[g].id = 0
            /\ feedback'[g] = "error"
            /\ ~verifying'[g]
            /\ visitors' = visitors]_vars

\* C25 witness: a terminal was refused a code that two PENDING visitors of its
\* tenant carry
C25_Witness ==
  \E g \in Gates :
     /\ feedback[g] = "error"
     /\ ~verifying[g]
     /\ verifyData[g].id = 0
     /\ verifyData[g].inviteCode # NoCode
     /\ \E i, j \in Ids :
          /\ i # j
          /\ visitors[i].building_id = Building[g] /\ visitors[j].building_id = Building[g]
          /\ visitors[i].invite_code = verifyData[g].inviteCode
          /\ visitors[j].invite_code = verifyData[g].inviteCode
          /\ visitors[i].status = "PENDING" /\ visitors[j].status = "PENDING"

\* C26: a terminal finishes validateCode with the success message only when
\* that call changed the stored status of the visitor from PENDING to ENTERED;
\* a call whose update fails shows no success and leaves the visitor PENDING
C26_SuccessMeansAdmitted ==
  [][\A g \in Gates :
       (verifying[g] /\ ~verifying'[g] /\ feedback'[g] = "success")
         => /\ visitors[verifyData[g].id].status = "PENDING"
            /\ visitors'[verifyData[g].id].status = "ENTERED"]_vars

\* C27: a Telegram callback whose action is neither approve nor deny, or whose
\* visitor id names no visitor, changes no visitor; a callback sets REJECTED
\* only for deny and ENTERED only for approve
C27_UnknownActionChangesNothing ==
  [][\A a \in {"approve", "deny", "other"}, id \in 1..MaxVisitors, dbOk \in BOOLEAN :
       serveCallback(a, id, dbOk)
         => /\ (a \notin {"approve", "deny"} \/ id \notin Ids) => visitors' = visitors
            /\ \A i \in Ids :
                 visitors'[i] # visitors[i]
                   => /\ visitors'[i].status = "REJECTED" => a = "deny"
                      /\ visitors'[i].status = "ENTERED" => a = "approve"]_vars

====
